---- MODULE Spec2Model ----
(***************************************************************************)
(* Synthetic marketplace data generators: src/src/generator/users.py      *)
(* (UserGenerator) and src/real/src/generator/events.py (EventGenerator). *)
(*                                                                         *)
(* Conventions of the model                                                *)
(*   - numpy's and Faker's seeded streams are deterministic functions of   *)
(*     (seed, position).  The function itself is unknown, so it is sampled *)
(*     lazily: the first draw at a position of a seed picks a raw value    *)
(*     and writes it on that seed's tape, every later draw at the same     *)
(*     position of the same seed reads the tape.                           *)
(*   - a raw value r in 0..RawMax-1 stands for the uniform variate         *)
(*     r/RawMax in [0,1); random(), randint() and choice() are computed    *)
(*     from it the way numpy computes them from a uniform variate.         *)
(*   - uuid.uuid4() reads the operating system's entropy, which no seed    *)
(*     controls: a process is handed an entropy value when it starts and   *)
(*     its k-th uuid is the pair <<entropy, k>>.                           *)
(*   - hash(str) is salted per interpreter process (PYTHONHASHSEED): the   *)
(*     hash of an identifier is sampled lazily per process into pyhash.    *)
(*   - probabilities are integers: rates in 1/100, multipliers in 1/10.    *)
(*   - dates are day numbers, instants are seconds (day * 86400 + ...).    *)
(***************************************************************************)
EXTENDS Integers, Sequences, FiniteSets, TLC

VARIABLES
    nproc,      \* number of interpreter processes started so far
    pyhash,     \* this process's str hash, on the identifiers hashed so far
    urandom,    \* [ent, n]: the process's entropy and the uuids drawn from it
    today,      \* datetime.now().date() as a day number
    objs,       \* generator objects constructed in this process
    gens,       \* their constructions in order: [cls, seed, at], self.seed
                \* and the number of generation calls finished before it
    rng,        \* rng[stream] = [seed, pos]: module-level random state
    tape,       \* tape[stream][seed]: the raw values of that seed's stream
    sess,       \* frame of generate_user_session
    ug,         \* frame of generate_users / generate_user_segments
    eg,         \* frame of generate_events_for_users
    ab_log,     \* the calls of assign_ab_group made so far, with their results
    runs        \* the generation calls completed so far, with their results

vars == <<nproc, pyhash, urandom, today, objs, gens, rng, tape, sess, ug, eg, ab_log, runs>>

(***************************************************************************)
(* Bounds of the model                                                     *)
(***************************************************************************)
RawMax == 1000          \* resolution of a uniform variate: r/RawMax
MaxEntropy == 2         \* entropy values a process may be handed
MaxProcs == 2           \* interpreter processes per behaviour
MaxAbCalls == 3         \* direct assign_ab_group calls per behaviour

Raw == 0..(RawMax - 1)
Entropy == 1..MaxEntropy
Streams == {"np", "faker"}

(***************************************************************************)
(* Program constants                                                       *)
(***************************************************************************)
DefaultSeed == 42
Seeds == {DefaultSeed, DefaultSeed + 1}

EVENT_TYPES == <<"page_view", "search", "item_view", "chat_click", "chat_send">>

\* FUNNEL_RATES, in 1/100
FUNNEL_RATES ==
    [page_view_to_search |-> 60, search_to_item_view |-> 75,
     item_view_to_chat_click |-> 25, chat_click_to_chat_send |-> 80]

\* segment_multiplier.get(user_segment, 1.0), in 1/10
segment_multiplier(user_segment) ==
    CASE user_segment = "high_engagement" -> 13
      [] user_segment = "medium_engagement" -> 10
      [] user_segment = "low_engagement" -> 7
      [] OTHER -> 10

\* a boost of 4.0 for the treatment group
treatment_boost_fourfold(ab_group) ==
    IF ab_group = "treatment" THEN 40 ELSE 10

\* a factor of 0.7 for the treatment group
treatment_boost_lowered(ab_group) ==
    IF ab_group = "treatment" THEN 7 ELSE 10

\* treatment_boost = 1.4 if ab_group == 'treatment' else 1.0, in 1/10
treatment_boost(ab_group) ==
    IF ab_group = "treatment" THEN 14 ELSE 10

NumQueries == 20

(***************************************************************************)
(* The random streams                                                      *)
(***************************************************************************)
\* np.random.seed(seed) / Faker.seed(seed): the stream restarts at position 0
seeded(seed) == [seed |-> seed, pos |-> 0]

\* The values the k-th next draw of a stream may return: the tape's, when the
\* stream of this seed has been observed that far, else any value of S.
Cand(st, k, S) ==
    LET t == tape[st][rng[st].seed]
    IN  IF rng[st].pos + k <= Len(t) THEN {t[rng[st].pos + k]} ELSE S

\* The tape of a stream after the draws vals have been taken from it
Written(st, vals) ==
    LET s == rng[st].seed
        t == tape[st][s]
    IN  IF vals = <<>> THEN tape[st]
        ELSE [tape[st] EXCEPT ![s] =
                IF Len(t) >= rng[st].pos + Len(vals) THEN t
                ELSE SubSeq(t, 1, rng[st].pos) \o vals]

\* The streams after npvals have been drawn from numpy and fkvals from Faker
Consume(npvals, fkvals) ==
    LET v == [st \in Streams |-> IF st = "np" THEN npvals ELSE fkvals]
    IN  /\ rng' = [st \in Streams |-> [rng[st] EXCEPT !.pos = @ + Len(v[st])]]
        /\ tape' = [st \in Streams |-> Written(st, v[st])]

\* np.random.random() < num/den, for the uniform variate r/RawMax
random_lt(r, num, den) == r * den < num * RawMax

\* randint with the lower bound dropped, as in np.random.randint(high)
randint_from_zero(r, low, high) == (r * high) \div RawMax

\* randint with the upper bound included, as random.randint(low, high)
randint_inclusive(r, low, high) == low + ((r * (high - low + 1)) \div RawMax)

\* np.random.randint(low, high): an integer in [low, high)
randint(r, low, high) == low + ((r * (high - low)) \div RawMax)

\* uuid.uuid4(): the k-th next identifier this process draws
uuid4(k) == <<urandom.ent, urandom.n + k>>

None == <<>>

(***************************************************************************)
(* EventGenerator.assign_ab_group                                          *)
(***************************************************************************)
\* The remainder of the division truncated towards zero (C's %), which is
\* negative for a negative a
pymod_truncated(a, n) == IF a >= 0 THEN a % n ELSE -((-a) % n)

\* Python's a % n for n > 0: the remainder of the floored division, in [0, n)
pymod(a, n) == a - n * (a \div n)

\* lines 59-66, applied to hash(user_id)
assign_ab_group(hash_val) ==
    LET mod_val == pymod(hash_val, 100)
    IN  IF mod_val < 20 THEN "control"
        ELSE IF mod_val < 40 THEN "treatment"
        ELSE "none"

\* The values hash(user_id) may take in this process: the one it already
\* took, or any value of H when the identifier has not been hashed yet.
HashCand(user_id, H) ==
    IF user_id \in DOMAIN pyhash THEN {pyhash[user_id]} ELSE H

Hashed(user_id, hash_val) ==
    IF user_id \in DOMAIN pyhash THEN pyhash ELSE (user_id :> hash_val) @@ pyhash

(***************************************************************************)
(* EventGenerator._create_event and _generate_search_query                 *)
(***************************************************************************)
NoExtra == <<>>

\* a page_view recorded without the caller's group
create_event_ungrouped(user_id, session_id, event_type, timestamp, ab_group, extra_data, event_id) ==
    extra_data @@
    [event_id |-> event_id, user_id |-> user_id, session_id |-> session_id,
     event_type |-> event_type, event_timestamp |-> timestamp,
     ab_group |-> IF event_type = "page_view" THEN "none" ELSE ab_group]

\* event_id is the uuid4 drawn at line 142; extra_data's keys are added last
create_event(user_id, session_id, event_type, timestamp, ab_group, extra_data, event_id) ==
    extra_data @@
    [event_id |-> event_id, user_id |-> user_id, session_id |-> session_id,
     event_type |-> event_type, event_timestamp |-> timestamp, ab_group |-> ab_group]

\* np.random.choice(queries): a uniform index into the 20 queries
generate_search_query(r) == 1 + randint(r, 0, NumQueries)

\* extra_data of the four later stages (lines 107, 116, 125, 133)
search_extra(q) == [search_query |-> generate_search_query(q)]

item_view_extra(item_id) == [item_id |-> item_id]

\* chat_click with an item identifier of its own instead of the session's
chat_click_extra_fresh(item_id) == [item_id |-> uuid4(2)]

chat_click_extra(item_id) == [item_id |-> item_id]

\* chat_send with a message length drawn from [10, 200] instead of [10, 200)
chat_send_extra_inclusive(item_id, m) ==
    [item_id |-> item_id, message_length |-> randint(m, 10, 201)]

chat_send_extra(item_id, m) ==
    [item_id |-> item_id, message_length |-> randint(m, 10, 200)]

(***************************************************************************)
(* EventGenerator.generate_user_session, one action per funnel stage       *)
(***************************************************************************)
IdleSess ==
    [pc |-> "idle", caller |-> "api", user_id |-> None, user_segment |-> "",
     session_start |-> 0, ab_group |-> "", session_id |-> None,
     current_time |-> 0, item_id |-> None, events |-> <<>>, pos |-> 0]

\* The frame on entry: the arguments bound, nothing executed yet; pos is the
\* position of numpy's stream at the call
EnterSess(caller, user_id, user_segment, session_start, ab_group) ==
    [IdleSess EXCEPT !.pc = "page_view", !.caller = caller, !.user_id = user_id,
                     !.user_segment = user_segment, !.session_start = session_start,
                     !.ab_group = ab_group, !.pos = rng["np"].pos]

multiplier == segment_multiplier(sess.user_segment)

\* lines 82-101: the session id, the page_view event, the first clock advance
SessPageView(S) ==
    /\ sess.pc = "page_view"
    /\ \E r \in Cand("np", 1, S.int) :
         LET session_id == uuid4(1)
             ev == create_event(sess.user_id, session_id, "page_view",
                                sess.session_start, sess.ab_group, NoExtra, uuid4(2))
         IN  /\ sess' = [sess EXCEPT !.pc = "search", !.session_id = session_id,
                                     !.events = <<ev>>,
                                     !.current_time = sess.session_start + randint(r, 5, 30)]
             /\ urandom' = [urandom EXCEPT !.n = @ + 2]
             /\ Consume(<<r>>, <<>>)
    /\ UNCHANGED <<gens, nproc, pyhash, today, objs, ug, eg, ab_log, runs>>

\* lines 103-109
SessSearch(S) ==
    /\ sess.pc = "search"
    /\ \E c \in Cand("np", 1, S.coin) :
         IF random_lt(c, FUNNEL_RATES.page_view_to_search * multiplier, 1000)
         THEN \E q \in Cand("np", 2, S.index), r \in Cand("np", 3, S.int) :
                LET ev == create_event(sess.user_id, sess.session_id, "search",
                                       sess.current_time, sess.ab_group,
                                       search_extra(q), uuid4(1))
                IN  /\ sess' = [sess EXCEPT !.pc = "item_view",
                                            !.events = Append(@, ev),
                                            !.current_time = @ + randint(r, 3, 15)]
                    /\ urandom' = [urandom EXCEPT !.n = @ + 1]
                    /\ Consume(<<c, q, r>>, <<>>)
         ELSE /\ sess' = [sess EXCEPT !.pc = "return"]
              /\ Consume(<<c>>, <<>>)
              /\ UNCHANGED urandom
    /\ UNCHANGED <<gens, nproc, pyhash, today, objs, ug, eg, ab_log, runs>>

\* lines 111-118
SessItemView(S) ==
    /\ sess.pc = "item_view"
    /\ \E c \in Cand("np", 1, S.coin) :
         IF random_lt(c, FUNNEL_RATES.search_to_item_view * multiplier, 1000)
         THEN \E r \in Cand("np", 2, S.int) :
                LET item_id == uuid4(1)
                    ev == create_event(sess.user_id, sess.session_id, "item_view",
                                       sess.current_time, sess.ab_group,
                                       item_view_extra(item_id), uuid4(2))
                IN  /\ sess' = [sess EXCEPT !.pc = "chat_click", !.item_id = item_id,
                                            !.events = Append(@, ev),
                                            !.current_time = @ + randint(r, 10, 60)]
                    /\ urandom' = [urandom EXCEPT !.n = @ + 2]
                    /\ Consume(<<c, r>>, <<>>)
         ELSE /\ sess' = [sess EXCEPT !.pc = "return"]
              /\ Consume(<<c>>, <<>>)
              /\ UNCHANGED urandom
    /\ UNCHANGED <<gens, nproc, pyhash, today, objs, ug, eg, ab_log, runs>>

\* line 121, in 1/10000
chat_click_rate ==
    FUNNEL_RATES.item_view_to_chat_click * multiplier * treatment_boost(sess.ab_group)

\* chat_send tested beside chat_click instead of inside it: a failed
\* chat_click coin goes on to the chat_send stage
SessChatClick_unnested(S) ==
    /\ sess.pc = "chat_click"
    /\ \E c \in Cand("np", 1, S.coin) :
         IF random_lt(c, chat_click_rate, 10000)
         THEN \E r \in Cand("np", 2, S.int) :
                LET ev == create_event(sess.user_id, sess.session_id, "chat_click",
                                       sess.current_time, sess.ab_group,
                                       chat_click_extra(sess.item_id), uuid4(1))
                IN  /\ sess' = [sess EXCEPT !.pc = "chat_send",
                                            !.events = Append(@, ev),
                                            !.current_time = @ + randint(r, 2, 10)]
                    /\ urandom' = [urandom EXCEPT !.n = @ + 1]
                    /\ Consume(<<c, r>>, <<>>)
         ELSE /\ sess' = [sess EXCEPT !.pc = "chat_send"]
              /\ Consume(<<c>>, <<>>)
              /\ UNCHANGED urandom
    /\ UNCHANGED <<gens, nproc, pyhash, today, objs, ug, eg, ab_log, runs>>

\* lines 120-127
SessChatClick(S) ==
    /\ sess.pc = "chat_click"
    /\ \E c \in Cand("np", 1, S.coin) :
         IF random_lt(c, chat_click_rate, 10000)
         THEN \E r \in Cand("np", 2, S.int) :
                LET ev == create_event(sess.user_id, sess.session_id, "chat_click",
                                       sess.current_time, sess.ab_group,
                                       chat_click_extra(sess.item_id), uuid4(1))
                IN  /\ sess' = [sess EXCEPT !.pc = "chat_send",
                                            !.events = Append(@, ev),
                                            !.current_time = @ + randint(r, 2, 10)]
                    /\ urandom' = [urandom EXCEPT !.n = @ + 1]
                    /\ Consume(<<c, r>>, <<>>)
         ELSE /\ sess' = [sess EXCEPT !.pc = "return"]
              /\ Consume(<<c>>, <<>>)
              /\ UNCHANGED urandom
    /\ UNCHANGED <<gens, nproc, pyhash, today, objs, ug, eg, ab_log, runs>>

\* chat_send with the treatment boost applied to its rate as well
SessChatSend_boosted(S) ==
    /\ sess.pc = "chat_send"
    /\ \E c \in Cand("np", 1, S.coin) :
         IF random_lt(c, FUNNEL_RATES.chat_click_to_chat_send * multiplier
                           * treatment_boost(sess.ab_group), 10000)
         THEN \E m \in Cand("np", 2, S.int) :
                LET ev == create_event(sess.user_id, sess.session_id, "chat_send",
                                       sess.current_time, sess.ab_group,
                                       chat_send_extra(sess.item_id, m), uuid4(1))
                IN  /\ sess' = [sess EXCEPT !.pc = "return", !.events = Append(@, ev)]
                    /\ urandom' = [urandom EXCEPT !.n = @ + 1]
                    /\ Consume(<<c, m>>, <<>>)
         ELSE /\ sess' = [sess EXCEPT !.pc = "return"]
              /\ Consume(<<c>>, <<>>)
              /\ UNCHANGED urandom
    /\ UNCHANGED <<gens, nproc, pyhash, today, objs, ug, eg, ab_log, runs>>

\* lines 129-134
SessChatSend(S) ==
    /\ sess.pc = "chat_send"
    /\ \E c \in Cand("np", 1, S.coin) :
         IF random_lt(c, FUNNEL_RATES.chat_click_to_chat_send * multiplier, 1000)
         THEN \E m \in Cand("np", 2, S.int) :
                LET ev == create_event(sess.user_id, sess.session_id, "chat_send",
                                       sess.current_time, sess.ab_group,
                                       chat_send_extra(sess.item_id, m), uuid4(1))
                IN  /\ sess' = [sess EXCEPT !.pc = "return", !.events = Append(@, ev)]
                    /\ urandom' = [urandom EXCEPT !.n = @ + 1]
                    /\ Consume(<<c, m>>, <<>>)
         ELSE /\ sess' = [sess EXCEPT !.pc = "return"]
              /\ Consume(<<c>>, <<>>)
              /\ UNCHANGED urandom
    /\ UNCHANGED <<gens, nproc, pyhash, today, objs, ug, eg, ab_log, runs>>

\* line 136: return events.  Called from generate_events_for_users, the list
\* is appended to all_events (line 212) and the session loop goes on.
SessReturn ==
    /\ sess.pc = "return"
    /\ IF sess.caller = "api"
       THEN /\ sess' = [sess EXCEPT !.pc = "done"]
            /\ UNCHANGED eg
       ELSE /\ sess' = IdleSess
            /\ eg' = [eg EXCEPT !.pc = "session", !.k = @ + 1,
                                !.all_events = @ \o sess.events]
    /\ UNCHANGED <<gens, nproc, pyhash, urandom, today, objs, rng, tape, ug, ab_log, runs>>

(***************************************************************************)
(* Processes and generator objects                                         *)
(***************************************************************************)
NoSeed == [seed |-> -1, pos |-> 0]

IdleUg == [pc |-> "idle"]

IdleEg == [pc |-> "idle"]

TodayInputs == {10, 11}

\* EventGenerator.__init__ (lines 35-43): np.random.seed(seed)
NewEventGenerator(seed) ==
    /\ sess.pc \in {"idle", "done"} /\ ug.pc = "idle" /\ eg.pc = "idle"
    /\ objs' = objs \cup {"EventGenerator"}
    /\ gens' = Append(gens, [cls |-> "EventGenerator", seed |-> seed, at |-> Len(runs)])
    /\ rng' = [rng EXCEPT !["np"] = seeded(seed)]
    /\ UNCHANGED <<nproc, pyhash, urandom, today, tape, sess, ug, eg, ab_log, runs>>

\* A new interpreter process: a separate run of the program.  The hash salt,
\* the entropy and the date are the new process's; every object is gone.
StartProcess(E, T) ==
    /\ nproc < MaxProcs
    /\ sess.pc \in {"idle", "done"} /\ ug.pc = "idle" /\ eg.pc = "idle"
    /\ nproc' = nproc + 1
    /\ pyhash' = <<>>
    /\ \E ent \in E : urandom' = [ent |-> ent, n |-> 0]
    /\ today' \in T
    /\ objs' = {}
    /\ gens' = <<>>
    /\ rng' = [st \in Streams |-> NoSeed]
    /\ sess' = IdleSess
    /\ UNCHANGED <<tape, ug, eg, ab_log, runs>>

(***************************************************************************)
(* Specification of one generate_user_session call                         *)
(***************************************************************************)
Top == RawMax - 1

\* The raw values a fresh draw is explored with: both ends of every integer
\* range, and uniform variates either side of every chat_click threshold.
SessionSamples ==
    [int |-> {0, Top}, index |-> {0, Top},
     coin |-> {0, (3 * RawMax) \div 10, Top}]

UserIds == {<<0, 1>>, <<0, 2>>}

SegmentInputs == {"high_engagement", "medium_engagement", "low_engagement", "unknown"}

AbInputs == {"control", "treatment", "none"}

StartInputs == {0, 86400}

\* A direct call generate_user_session(user_id, user_segment, session_start, ab_group)
CallSession ==
    /\ sess.pc = "idle"
    /\ "EventGenerator" \in objs
    /\ \E user_id \in UserIds, user_segment \in SegmentInputs,
          session_start \in StartInputs, ab_group \in AbInputs :
         sess' = EnterSess("api", user_id, user_segment, session_start, ab_group)
    /\ UNCHANGED <<gens, nproc, pyhash, urandom, today, objs, rng, tape, ug, eg, ab_log, runs>>

InitProcess ==
    /\ nproc = 1
    /\ pyhash = <<>>
    /\ urandom \in [ent : Entropy, n : {0}]
    /\ today \in TodayInputs
    /\ objs = {}
    /\ gens = <<>>
    /\ rng = [st \in Streams |-> NoSeed]
    /\ tape = [st \in Streams |-> [s \in Seeds |-> <<>>]]
    /\ sess = IdleSess
    /\ ug = IdleUg
    /\ eg = IdleEg
    /\ ab_log = <<>>
    /\ runs = <<>>

InitSession == InitProcess

NextSession ==
    \/ \E seed \in Seeds : "EventGenerator" \notin objs /\ NewEventGenerator(seed)
    \/ CallSession
    \/ SessPageView(SessionSamples)
    \/ SessSearch(SessionSamples)
    \/ SessItemView(SessionSamples)
    \/ SessChatClick(SessionSamples)
    \/ SessChatSend(SessionSamples)
    \/ SessReturn

SpecSession == InitSession /\ [][NextSession]_vars

(***************************************************************************)
(* Specification of direct assign_ab_group calls, in one or more processes *)
(***************************************************************************)
\* Hash values either side of every bucket boundary, of both signs
HashSamples == {-81, -80, -1, 0, 19, 20, 39, 40}

\* A direct call assign_ab_group(user_id)
AssignAbGroup(H) ==
    /\ "EventGenerator" \in objs
    /\ Len(ab_log) < MaxAbCalls
    /\ \E user_id \in UserIds :
         \E hash_val \in HashCand(user_id, H) :
            /\ pyhash' = Hashed(user_id, hash_val)
            /\ ab_log' = Append(ab_log, [proc |-> nproc, user_id |-> user_id,
                                         hash_val |-> hash_val,
                                         group |-> assign_ab_group(hash_val)])
    /\ UNCHANGED <<gens, nproc, urandom, today, objs, rng, tape, sess, ug, eg, runs>>

\* assign_ab_group reads neither the entropy nor the date: they are fixed,
\* and a new process is started with the ones of the process before it
InitAB == InitProcess /\ urandom.ent = 1 /\ today = 10

NextAB ==
    \/ "EventGenerator" \notin objs /\ NewEventGenerator(DefaultSeed)
    \/ AssignAbGroup(HashSamples)
    \/ StartProcess({urandom.ent}, {today})

SpecAB == InitAB /\ [][NextAB]_vars

(***************************************************************************)
(* UserGenerator (users.py)                                                *)
(***************************************************************************)
DAY == 86400

\* datetime.now(): the instant of today at which the program runs
NowSecond == 43200

now == today * DAY + NowSecond

\* start_date=None / end_date=None
NoDate == -1

DefaultDays == 90

AGE_GROUPS == <<"18-24", "25-34", "35-44", "45-54", "55+">>

\* p of the age group choice, in 1/100
AGE_P == <<15, 35, 25, 15, 10>>

DEVICE_TYPES == <<"iOS", "Android">>

\* p of the device type choice, in 1/100
DEVICE_P == <<45, 55>>

RECURSIVE cumsum(_, _)
cumsum(p, i) == IF i = 0 THEN 0 ELSE p[i] + cumsum(p, i - 1)

\* np.random.choice(a, p=p): the index cdf.searchsorted(u, side='right') of
\* the uniform variate u = r/RawMax in the normalised cumulative sums of p
choice_p(r, p) ==
    1 + Cardinality({i \in 1..Len(p) : cumsum(p, i) * RawMax <= r * cumsum(p, Len(p))})

\* self.fake.city() and self.fake.name(): values determined by Faker's stream
fake_city(r) == <<"city", r>>

fake_name(r) == <<"name", r>>

\* The insertion of a descending sort (ascending=False)
insert_sorted_desc(sorted, row, key) ==
    LET k == Cardinality({i \in 1..Len(sorted) : sorted[i][key] >= row[key]})
    IN  SubSeq(sorted, 1, k) \o <<row>> \o SubSeq(sorted, k + 1, Len(sorted))

\* A list insertion for the sort: row goes behind the rows whose key is not
\* greater than its own
insert_sorted(sorted, row, key) ==
    LET k == Cardinality({i \in 1..Len(sorted) : sorted[i][key] <= row[key]})
    IN  SubSeq(sorted, 1, k) \o <<row>> \o SubSeq(sorted, k + 1, Len(sorted))

\* df.sort_values(key).reset_index(drop=True)
RECURSIVE sort_values(_, _)
sort_values(rows, key) ==
    IF rows = <<>> THEN <<>>
    ELSE insert_sorted(sort_values(SubSeq(rows, 1, Len(rows) - 1), key),
                       rows[Len(rows)], key)

\* UserGenerator.__init__ (lines 19-28): Faker.seed(seed), np.random.seed(seed)
NewUserGenerator(seed) ==
    /\ sess.pc \in {"idle", "done"} /\ ug.pc = "idle" /\ eg.pc = "idle"
    /\ objs' = objs \cup {"UserGenerator"}
    /\ gens' = Append(gens, [cls |-> "UserGenerator", seed |-> seed, at |-> Len(runs)])
    /\ rng' = [st \in Streams |-> seeded(seed)]
    /\ UNCHANGED <<nproc, pyhash, urandom, today, tape, sess, ug, eg, ab_log, runs>>

\* lines 44-49 of a call generate_users(num_users, start_date, end_date)
EnterUsers(num_users, start_date, end_date) ==
    [pc |-> "loop", num_users |-> num_users,
     args |-> <<num_users, start_date, end_date>>,
     seed |-> rng["np"].seed, pos |-> rng["np"].pos,
     start_date |-> IF start_date = NoDate THEN now - DefaultDays * DAY ELSE start_date,
     end_date |-> IF end_date = NoDate THEN now ELSE end_date,
     i |-> 0, users |-> <<>>]

\* The record of a finished call: draws are the positions of numpy's stream
\* at the call and at its end
Finished(fn, frame, outcome, table) ==
    [fn |-> fn, proc |-> nproc, seed |-> frame.seed, args |-> frame.args,
     outcome |-> outcome, table |-> table,
     draws |-> <<frame.pos, rng["np"].pos>>]

\* The length of the range with a started day counted as a whole one
days_between_ceil == (ug.end_date - ug.start_date + DAY - 1) \div DAY

\* The whole days between the two dates, whichever is the earlier one
days_between_abs ==
    (IF ug.end_date >= ug.start_date THEN ug.end_date - ug.start_date
     ELSE ug.start_date - ug.end_date) \div DAY

\* days_between = (end_date - start_date).days
days_between == (ug.end_date - ug.start_date) \div DAY

\* One iteration of the loop, lines 51-78.  np.random.randint(0, high) raises
\* ValueError when high <= 0.
UsersLoop(S) ==
    /\ ug.pc = "loop"
    /\ ug.i < ug.num_users
    /\ IF days_between + 1 <= 0
       THEN /\ ug' = IdleUg
            /\ runs' = Append(runs, Finished("generate_users", ug, "ValueError", <<>>))
            /\ UNCHANGED <<urandom, rng, tape>>
       ELSE \E d \in Cand("np", 1, S.int), v \in Cand("np", 2, S.coin),
               a \in Cand("np", 3, S.age), t \in Cand("np", 4, S.device),
               c \in Cand("faker", 1, S.fake), n \in Cand("faker", 2, S.fake) :
              LET random_days == randint(d, 0, days_between + 1)
                  join_date == ug.start_date + random_days * DAY
                  user == [user_id |-> uuid4(1),
                           name |-> fake_name(n),
                           location |-> fake_city(c),
                           join_date |-> join_date \div DAY,
                           verified_neighborhood |-> random_lt(v, 7, 10),
                           created_at |-> join_date,
                           age_group |-> AGE_GROUPS[choice_p(a, AGE_P)],
                           device_type |-> DEVICE_TYPES[choice_p(t, DEVICE_P)]]
              IN  /\ ug' = [ug EXCEPT !.i = @ + 1, !.users = Append(@, user)]
                  /\ urandom' = [urandom EXCEPT !.n = @ + 1]
                  /\ Consume(<<d, v, a, t>>, <<c, n>>)
                  /\ UNCHANGED runs
    /\ UNCHANGED <<gens, nproc, pyhash, today, objs, sess, eg, ab_log>>

\* lines 80-85.  A DataFrame built from an empty list has no columns, and
\* sort_values('join_date') on it raises KeyError.
UsersFinish ==
    /\ ug.pc = "loop"
    /\ ug.i >= ug.num_users
    /\ ug' = IdleUg
    /\ runs' = Append(runs,
                 IF ug.users = <<>>
                 THEN Finished("generate_users", ug, "KeyError", <<>>)
                 ELSE Finished("generate_users", ug, "returned",
                               sort_values(ug.users, "join_date")))
    /\ UNCHANGED <<gens, nproc, pyhash, urandom, today, objs, rng, tape, sess, eg, ab_log>>

(***************************************************************************)
(* Specification of generate_users: a run, and replays of it in the same   *)
(* process with the same seed and arguments on a freshly constructed       *)
(* UserGenerator                                                           *)
(***************************************************************************)
MaxUsers == 2
MaxRuns == 2

UsersSamples ==
    [int |-> {0, Top}, coin |-> {0, Top}, age |-> {0, Top}, device |-> {0, Top},
     fake |-> {0}]

CountInputs == (-1)..MaxUsers

\* explicit ranges of 0 and of 2 whole days, a range that ends before it
\* starts, and the default range
DateInputs ==
    {<<5 * DAY + 3600, 5 * DAY + 3600>>, <<5 * DAY + 3600, 7 * DAY + 7200>>,
     <<5 * DAY + 3600, 5 * DAY>>, <<NoDate, NoDate>>}

UsersArgs ==
    IF runs = <<>> THEN {<<n, d[1], d[2]>> : n \in CountInputs, d \in DateInputs}
    ELSE {runs[1].args}

UsersSeeds == {DefaultSeed}

Fresh == \A st \in Streams : rng[st].pos = 0

\* A call generate_users(num_users, start_date, end_date) on the generator
\* just constructed
CallGenerateUsers ==
    /\ ug.pc = "idle"
    /\ "UserGenerator" \in objs
    /\ Fresh
    /\ Len(runs) < MaxRuns
    /\ \E a \in UsersArgs : ug' = EnterUsers(a[1], a[2], a[3])
    /\ UNCHANGED <<gens, nproc, pyhash, urandom, today, objs, rng, tape, sess, eg, ab_log, runs>>

InitUsers == InitProcess

NextUsers ==
    \/ \E seed \in UsersSeeds :
         /\ "UserGenerator" \notin objs \/ ~Fresh
         /\ Len(runs) < MaxRuns
         /\ NewUserGenerator(seed)
    \/ CallGenerateUsers
    \/ UsersLoop(UsersSamples)
    \/ UsersFinish

SpecUsers == InitUsers /\ [][NextUsers]_vars

(***************************************************************************)
(* UserGenerator.generate_user_segments                                    *)
(***************************************************************************)
\* a base of 0.6 for a verified user, in 1/10
base_engagement_raised(verified_neighborhood) == IF verified_neighborhood THEN 6 ELSE 3

\* base_engagement = 0.5 if row['verified_neighborhood'] else 0.3, in 1/10
base_engagement(verified_neighborhood) == IF verified_neighborhood THEN 5 ELSE 3

\* age_multiplier.get(row['age_group'], 1.0), in 1/10
age_multiplier(age_group) ==
    CASE age_group = "18-24" -> 12
      [] age_group = "25-34" -> 13
      [] age_group = "35-44" -> 10
      [] age_group = "45-54" -> 8
      [] age_group = "55+" -> 6
      [] OTHER -> 10

\* engagement_score (line 113), in 1/100.  The double products compare with
\* 0.7 and 0.4 as the exact ones do: 0.5 * 0.8 is the double 0.4 itself, and
\* no other product is within 0.01 of a threshold.
engagement_score(row) ==
    base_engagement(row.verified_neighborhood) * age_multiplier(row.age_group)

\* the categories with the thresholds included: >= 0.7 and >= 0.4
segment_at_least(score) ==
    IF score >= 70 THEN "high_engagement"
    ELSE IF score >= 40 THEN "medium_engagement"
    ELSE "low_engagement"

\* lines 116-121
segment(score) ==
    IF score > 70 THEN "high_engagement"
    ELSE IF score > 40 THEN "medium_engagement"
    ELSE "low_engagement"

\* a new frame of the identifier and the segment alone
set_column_fresh(row, col, v) == (col :> v) @@ [user_id |-> row.user_id]

\* one row of df[col] = values: the column is added, or overwritten
set_column(row, col, v) == (col :> v) @@ row

\* line 98 of a call generate_user_segments(df)
EnterSegments(df) ==
    [pc |-> "segments", df |-> df, args |-> <<df>>, seed |-> rng["np"].seed,
     pos |-> rng["np"].pos, i |-> 0, segments |-> <<>>]

\* One iteration of the loop over df.iterrows(), lines 100-123
SegmentsLoop ==
    /\ ug.pc = "segments"
    /\ ug.i < Len(ug.df)
    /\ LET row == ug.df[ug.i + 1]
       IN  ug' = [ug EXCEPT !.i = @ + 1,
                            !.segments = Append(@, segment(engagement_score(row)))]
    /\ UNCHANGED <<gens, nproc, pyhash, urandom, today, objs, rng, tape, sess, eg, ab_log, runs>>

\* lines 125-127: df['user_segment'] = segments; return df.  The assignment
\* writes the column into the frame object the caller passed, and that
\* object is what is returned: input is what the caller's object holds when
\* the call returns.
SegmentsFinish ==
    /\ ug.pc = "segments"
    /\ ug.i >= Len(ug.df)
    /\ ug' = IdleUg
    /\ LET df == [j \in 1..Len(ug.df) |->
                    set_column(ug.df[j], "user_segment", ug.segments[j])]
       IN  runs' = Append(runs,
                     Finished("generate_user_segments", ug, "returned", df)
                         @@ [input |-> df])
    /\ UNCHANGED <<gens, nproc, pyhash, urandom, today, objs, rng, tape, sess, eg, ab_log>>

(***************************************************************************)
(* Specification of generate_user_segments: a call on a user table, and    *)
(* calls on the table the call before returned                             *)
(***************************************************************************)
\* the age groups generate_users draws, and one it does not
AgeInputs == {"18-24", "25-34", "35-44", "45-54", "55+", "65+"}

\* The i-th record of a user table, with the columns generate_users gives it
UserRow(i, verified_neighborhood, age_group) ==
    [user_id |-> <<0, i>>, name |-> fake_name(i), location |-> fake_city(i),
     join_date |-> 5 + i, verified_neighborhood |-> verified_neighborhood,
     created_at |-> (5 + i) * DAY + 3600, age_group |-> age_group,
     device_type |-> DEVICE_TYPES[1 + (i % 2)]]

\* the user tables of up to MaxUsers records
SegmentsTables ==
    UNION {{[i \in 1..n |-> UserRow(i, f[i][1], f[i][2])] :
               f \in [1..n -> BOOLEAN \X AgeInputs]} : n \in 0..MaxUsers}

SegmentsArgs == IF runs = <<>> THEN SegmentsTables ELSE {runs[Len(runs)].table}

\* A call generate_user_segments(df)
CallGenerateSegments ==
    /\ ug.pc = "idle"
    /\ "UserGenerator" \in objs
    /\ Len(runs) < MaxRuns
    /\ \E df \in SegmentsArgs : ug' = EnterSegments(df)
    /\ UNCHANGED <<gens, nproc, pyhash, urandom, today, objs, rng, tape, sess, eg, ab_log, runs>>

\* generate_user_segments reads neither the entropy nor the date
InitSegments == InitProcess /\ urandom.ent = 1 /\ today = 10

NextSegments ==
    \/ "UserGenerator" \notin objs /\ NewUserGenerator(DefaultSeed)
    \/ CallGenerateSegments
    \/ SegmentsLoop
    \/ SegmentsFinish

SpecSegments == InitSegments /\ [][NextSegments]_vars

(***************************************************************************)
(* EventGenerator.generate_events_for_users                                *)
(***************************************************************************)
\* _get_hourly_distribution (lines 223-232), in 1/100; choice_p normalises
HOURLY ==
    <<1, 1, 1, 1, 1, 1,  2, 3, 4, 4, 4, 5,  5, 4, 4, 4, 5, 6,  8, 9, 10, 9, 7, 3>>

min(a, b) == IF a <= b THEN a ELSE b

\* user.get('user_segment', 'medium_engagement')
segment_of(user) ==
    IF "user_segment" \in DOMAIN user THEN user.user_segment ELSE "medium_engagement"

\* line 178 of a call generate_events_for_users(users_df, events_per_user_range, days_range)
EnterEvents(users_df, events_per_user_range, days_range) ==
    [pc |-> "user", users_df |-> users_df,
     events_per_user_range |-> events_per_user_range, days_range |-> days_range,
     args |-> <<users_df, events_per_user_range, days_range>>,
     seed |-> rng["np"].seed, pos |-> rng["np"].pos,
     u |-> 0, user_id |-> None, user_segment |-> "", join_date |-> 0,
     ab_group |-> "", num_sessions |-> 0, k |-> 0, all_events |-> <<>>]

\* the user loop with an empty range taken as the count min, drawn from
\* nothing: no error for min >= max
EvUser_lenient(S, H) ==
    /\ eg.pc = "user"
    /\ eg.u < Len(eg.users_df)
    /\ LET user == eg.users_df[eg.u + 1]
           low == eg.events_per_user_range[1]
           high == eg.events_per_user_range[2]
       IN  \E hash_val \in HashCand(user.user_id, H) :
             /\ pyhash' = Hashed(user.user_id, hash_val)
             /\ IF low >= high
                THEN /\ eg' = [eg EXCEPT !.pc = "session", !.u = @ + 1,
                                         !.user_id = user.user_id,
                                         !.user_segment = segment_of(user),
                                         !.join_date = user.join_date,
                                         !.ab_group = assign_ab_group(hash_val),
                                         !.num_sessions = low,
                                         !.k = 0]
                     /\ UNCHANGED <<rng, tape, runs>>
                ELSE \E n \in Cand("np", 1, S.count) :
                       /\ eg' = [eg EXCEPT !.pc = "session", !.u = @ + 1,
                                           !.user_id = user.user_id,
                                           !.user_segment = segment_of(user),
                                           !.join_date = user.join_date,
                                           !.ab_group = assign_ab_group(hash_val),
                                           !.num_sessions = randint(n, low, high),
                                           !.k = 0]
                       /\ Consume(<<n>>, <<>>)
                       /\ UNCHANGED runs
    /\ UNCHANGED <<gens, nproc, urandom, today, objs, sess, ug, ab_log>>

\* lines 180-189: the next row of users_df, its A/B group and session count.
\* np.random.randint(low, high) raises ValueError when low >= high.
EvUser(S, H) ==
    /\ eg.pc = "user"
    /\ eg.u < Len(eg.users_df)
    /\ LET user == eg.users_df[eg.u + 1]
           low == eg.events_per_user_range[1]
           high == eg.events_per_user_range[2]
       IN  \E hash_val \in HashCand(user.user_id, H) :
             /\ pyhash' = Hashed(user.user_id, hash_val)
             /\ IF low >= high
                THEN /\ eg' = IdleEg
                     /\ runs' = Append(runs, Finished("generate_events_for_users",
                                                      eg, "ValueError", <<>>))
                     /\ UNCHANGED <<rng, tape>>
                ELSE \E n \in Cand("np", 1, S.count) :
                       /\ eg' = [eg EXCEPT !.pc = "session", !.u = @ + 1,
                                           !.user_id = user.user_id,
                                           !.user_segment = segment_of(user),
                                           !.join_date = user.join_date,
                                           !.ab_group = assign_ab_group(hash_val),
                                           !.num_sessions = randint(n, low, high),
                                           !.k = 0]
                       /\ Consume(<<n>>, <<>>)
                       /\ UNCHANGED runs
    /\ UNCHANGED <<gens, nproc, urandom, today, objs, sess, ug, ab_log>>

\* the days since the join date with the join day counted
days_since_join_inclusive == min(eg.days_range, today - eg.join_date + 1)

\* the days since the join date, not capped by days_range
days_since_join_uncapped == today - eg.join_date

\* line 193
days_since_join == min(eg.days_range, today - eg.join_date)

\* lines 191-211: one iteration of the session loop, up to the call of
\* generate_user_session; the iteration is skipped when days_since_join <= 0
EvSession(S) ==
    /\ eg.pc = "session"
    /\ eg.k < eg.num_sessions
    /\ IF days_since_join <= 0
       THEN /\ eg' = [eg EXCEPT !.k = @ + 1]
            /\ UNCHANGED <<sess, rng, tape>>
       ELSE \E d \in Cand("np", 1, S.day), h \in Cand("np", 2, S.hour),
               m \in Cand("np", 3, S.int), c \in Cand("np", 4, S.int) :
              LET random_day == randint(d, 0, days_since_join + 1)
                  session_date == (eg.join_date + random_day) * DAY
                  hour == choice_p(h, HOURLY) - 1
                  session_start == session_date + hour * 3600
                                     + randint(m, 0, 60) * 60 + randint(c, 0, 60)
              IN  /\ eg' = [eg EXCEPT !.pc = "in_session"]
                  /\ sess' = EnterSess("events", eg.user_id, eg.user_segment,
                                       session_start, eg.ab_group)
                  /\ Consume(<<d, h, m, c>>, <<>>)
    /\ UNCHANGED <<gens, nproc, pyhash, urandom, today, objs, ug, ab_log, runs>>

\* the session loop of a user is exhausted: back to line 180
EvEndSessions ==
    /\ eg.pc = "session"
    /\ eg.k >= eg.num_sessions
    /\ eg' = [eg EXCEPT !.pc = "user"]
    /\ UNCHANGED <<gens, nproc, pyhash, urandom, today, objs, rng, tape, sess, ug, ab_log, runs>>

\* the table returned in the order the events were generated in
EvFinish_unsorted ==
    /\ eg.pc = "user"
    /\ eg.u >= Len(eg.users_df)
    /\ eg' = IdleEg
    /\ runs' = Append(runs,
                 Finished("generate_events_for_users", eg, "returned", eg.all_events)
                     @@ [input |-> eg.users_df])
    /\ UNCHANGED <<gens, nproc, pyhash, urandom, today, objs, rng, tape, sess, ug, ab_log>>

\* the table sorted without the test of its length, as generate_users sorts
\* its own: the frame of an empty list has no event_timestamp column
EvFinish_unguarded ==
    /\ eg.pc = "user"
    /\ eg.u >= Len(eg.users_df)
    /\ eg' = IdleEg
    /\ runs' = Append(runs,
                 IF eg.all_events = <<>>
                 THEN Finished("generate_events_for_users", eg, "KeyError", <<>>)
                 ELSE Finished("generate_events_for_users", eg, "returned",
                               sort_values(eg.all_events, "event_timestamp"))
                          @@ [input |-> eg.users_df])
    /\ UNCHANGED <<gens, nproc, pyhash, urandom, today, objs, rng, tape, sess, ug, ab_log>>

\* the table sorted by timestamp with the latest event first
EvFinish_descending ==
    /\ eg.pc = "user"
    /\ eg.u >= Len(eg.users_df)
    /\ eg' = IdleEg
    /\ runs' = Append(runs,
                 Finished("generate_events_for_users", eg, "returned",
                          LET up == sort_values(eg.all_events, "event_timestamp")
                          IN  [j \in 1..Len(up) |-> up[Len(up) + 1 - j]])
                     @@ [input |-> eg.users_df])
    /\ UNCHANGED <<gens, nproc, pyhash, urandom, today, objs, rng, tape, sess, ug, ab_log>>

\* lines 214-221: the table of all events, sorted by timestamp when not
\* empty.  The rows of users_df were only read (lines 180-183): input is
\* what the caller's frame object holds when the call returns.
EvFinish ==
    /\ eg.pc = "user"
    /\ eg.u >= Len(eg.users_df)
    /\ eg' = IdleEg
    /\ runs' = Append(runs,
                 Finished("generate_events_for_users", eg, "returned",
                          IF Len(eg.all_events) > 0
                          THEN sort_values(eg.all_events, "event_timestamp")
                          ELSE <<>>)
                     @@ [input |-> eg.users_df])
    /\ UNCHANGED <<gens, nproc, pyhash, urandom, today, objs, rng, tape, sess, ug, ab_log>>

(***************************************************************************)
(* Specification of generate_events_for_users: a run, and replays of it in *)
(* the same process with the same seed and arguments on a freshly          *)
(* constructed generator                                                   *)
(***************************************************************************)
\* The uniform variate 3/10 passes or fails a stage according to the segment
\* and the A/B group: a session ends after item_view, or runs to chat_send
EventsSamples ==
    [count |-> {0, Top}, day |-> {0, Top}, hour |-> {Top}, int |-> {0},
     index |-> {0}, coin |-> {(3 * RawMax) \div 10}]

EventsHashSamples == {-81, 20, -1}

\* User tables: rows carry the columns the function reads.  With today 10 or
\* 11 the join dates are two or three days back, today or yesterday, and a
\* day that has not come yet.
Row(user_id, join_date, user_segment) ==
    [user_id |-> user_id, join_date |-> join_date, user_segment |-> user_segment]

EventsTables ==
    {<<>>,
     <<Row(<<0, 1>>, 8, "low_engagement")>>,
     <<Row(<<0, 1>>, 8, "medium_engagement"),
       [user_id |-> <<0, 2>>, join_date |-> 10]>>,
     <<Row(<<0, 2>>, 12, "high_engagement")>>}

\* a range of two counts, an empty range and a reversed one
EventsRanges == {<<1, 3>>, <<2, 2>>, <<3, 1>>}

EventsDays == {0, 1, 30}

EventsArgs ==
    IF runs = <<>>
    THEN {<<t, r, d>> : t \in EventsTables, r \in EventsRanges, d \in EventsDays}
    ELSE {runs[1].args}

EventsSeeds == {DefaultSeed}

\* A call generate_events_for_users(users_df, events_per_user_range,
\* days_range) on the generator just constructed
CallGenerateEvents ==
    /\ eg.pc = "idle" /\ sess.pc = "idle"
    /\ "EventGenerator" \in objs
    /\ rng["np"].pos = 0
    /\ Len(runs) < MaxRuns
    /\ \E a \in EventsArgs : eg' = EnterEvents(a[1], a[2], a[3])
    /\ UNCHANGED <<gens, nproc, pyhash, urandom, today, objs, rng, tape, sess, ug, ab_log, runs>>

InitEvents == InitProcess

NextEvents ==
    \/ \E seed \in EventsSeeds :
         /\ "EventGenerator" \notin objs \/ rng["np"].pos > 0
         /\ Len(runs) < MaxRuns
         /\ NewEventGenerator(seed)
    \/ CallGenerateEvents
    \/ EvUser(EventsSamples, EventsHashSamples)
    \/ EvSession(EventsSamples)
    \/ EvEndSessions
    \/ SessPageView(EventsSamples)
    \/ SessSearch(EventsSamples)
    \/ SessItemView(EventsSamples)
    \/ SessChatClick(EventsSamples)
    \/ SessChatSend(EventsSamples)
    \/ SessReturn
    \/ EvFinish

SpecEvents == InitEvents /\ [][NextEvents]_vars

(***************************************************************************)
(* Specification of generate_user_session calls that differ in the A/B     *)
(* group alone: each call is made on a freshly constructed generator of    *)
(* the same seed, so that it is given the same sequence of draws           *)
(***************************************************************************)
\* The uniform variates 0, 3/10 and 9/10: 3/10 lies between the chat_click
\* rates of the two boosts (0.25 and 0.35 for the multiplier 1.0), 9/10
\* between every other stage's rate and 1.4 times that rate for some segment
PairSamples ==
    [int |-> {0}, index |-> {0},
     coin |-> {0, (3 * RawMax) \div 10, (9 * RawMax) \div 10}]

PairArgs ==
    IF runs = <<>>
    THEN {<<<<0, 1>>, user_segment, 0, ab_group>> :
             user_segment \in SegmentInputs, ab_group \in AbInputs}
    ELSE {<<runs[1].args[1], runs[1].args[2], runs[1].args[3], ab_group>> :
             ab_group \in AbInputs}

\* A direct call of generate_user_session on the generator just constructed
CallSessionPair ==
    /\ sess.pc = "idle"
    /\ "EventGenerator" \in objs
    /\ rng["np"].pos = 0
    /\ Len(runs) < MaxRuns
    /\ \E a \in PairArgs : sess' = EnterSess("api", a[1], a[2], a[3], a[4])
    /\ UNCHANGED <<gens, nproc, pyhash, urandom, today, objs, rng, tape, ug, eg, ab_log, runs>>

\* The direct caller keeps the list the call returned (line 136)
CollectSession ==
    /\ sess.pc = "done"
    /\ runs' = Append(runs,
                 Finished("generate_user_session",
                          [seed |-> rng["np"].seed, pos |-> sess.pos,
                           args |-> <<sess.user_id, sess.user_segment,
                                      sess.session_start, sess.ab_group>>],
                          "returned", sess.events))
    /\ sess' = IdleSess
    /\ UNCHANGED <<gens, nproc, pyhash, urandom, today, objs, rng, tape, ug, eg, ab_log>>

\* a session reads the date of no clock
InitPair == InitProcess /\ today = 10

NextPair ==
    \/ /\ "EventGenerator" \notin objs \/ rng["np"].pos > 0
       /\ sess.pc = "idle"
       /\ Len(runs) < MaxRuns
       /\ NewEventGenerator(DefaultSeed)
    \/ CallSessionPair
    \/ SessPageView(PairSamples)
    \/ SessSearch(PairSamples)
    \/ SessItemView(PairSamples)
    \/ SessChatClick(PairSamples)
    \/ SessChatSend(PairSamples)
    \/ SessReturn
    \/ CollectSession

SpecPair == InitPair /\ [][NextPair]_vars

(***************************************************************************)
(* Specification of successive generate_events_for_users calls on one      *)
(* EventGenerator: the generator is constructed once                       *)
(***************************************************************************)
AgainArgs ==
    IF runs = <<>>
    THEN {<<<<Row(<<0, 1>>, 8, "medium_engagement")>>, <<1, 3>>, 30>>}
    ELSE {runs[1].args}

\* a call that starts by seeding the stream with the generator's seed
CallGenerateEventsAgain_reseeding ==
    /\ eg.pc = "idle" /\ sess.pc = "idle"
    /\ "EventGenerator" \in objs
    /\ Len(runs) < MaxRuns
    /\ \E a \in AgainArgs : eg' = EnterEvents(a[1], a[2], a[3])
    /\ rng' = [rng EXCEPT !["np"] = seeded(rng["np"].seed)]
    /\ UNCHANGED <<gens, nproc, pyhash, urandom, today, objs, tape, sess, ug, ab_log, runs>>

\* A call generate_events_for_users(users_df, events_per_user_range,
\* days_range) on the generator, wherever the stream stands: the function
\* has no np.random.seed call (lines 178-221)
CallGenerateEventsAgain ==
    /\ eg.pc = "idle" /\ sess.pc = "idle"
    /\ "EventGenerator" \in objs
    /\ Len(runs) < MaxRuns
    /\ \E a \in AgainArgs : eg' = EnterEvents(a[1], a[2], a[3])
    /\ UNCHANGED <<gens, nproc, pyhash, urandom, today, objs, rng, tape, sess, ug, ab_log, runs>>

InitAgain == InitProcess /\ urandom.ent = 1

NextAgain ==
    \/ "EventGenerator" \notin objs /\ NewEventGenerator(DefaultSeed)
    \/ CallGenerateEventsAgain
    \/ EvUser(EventsSamples, EventsHashSamples)
    \/ EvSession(EventsSamples)
    \/ EvEndSessions
    \/ SessPageView(EventsSamples)
    \/ SessSearch(EventsSamples)
    \/ SessItemView(EventsSamples)
    \/ SessChatClick(EventsSamples)
    \/ SessChatSend(EventsSamples)
    \/ SessReturn
    \/ EvFinish

SpecAgain == InitAgain /\ [][NextAgain]_vars

(***************************************************************************)
(* Specification of generators that share numpy's module-level stream: an  *)
(* EventGenerator and a UserGenerator are constructed in any order, and    *)
(* generate_users and generate_user_session are called on the ones last    *)
(* constructed                                                             *)
(***************************************************************************)
MaxGens == 3

SharedSamples ==
    [int |-> {0}, index |-> {0}, coin |-> {0, Top}, age |-> {0}, device |-> {0},
     fake |-> {0}]

Quiet == sess.pc = "idle" /\ ug.pc = "idle" /\ eg.pc = "idle"

\* generate_users(1, start_date, end_date) on the UserGenerator, wherever
\* the streams stand
CallUsersShared ==
    /\ Quiet
    /\ "UserGenerator" \in objs
    /\ Len(runs) < MaxRuns
    /\ ug' = EnterUsers(1, 5 * DAY + 3600, 7 * DAY + 7200)
    /\ UNCHANGED <<gens, nproc, pyhash, urandom, today, objs, rng, tape, sess, eg, ab_log, runs>>

\* a session call that first seeds a stream with the seed the generator was
\* constructed with
CallSessionShared_reseeding ==
    /\ Quiet
    /\ "EventGenerator" \in objs
    /\ Len(runs) < MaxRuns
    /\ sess' = EnterSess("api", <<0, 1>>, "medium_engagement", 0, "control")
    /\ LET own == CHOOSE g \in 1..Len(gens) :
                     /\ gens[g].cls = "EventGenerator"
                     /\ \A h \in (g + 1)..Len(gens) : gens[h].cls # "EventGenerator"
       IN  rng' = [rng EXCEPT !["np"] = seeded(gens[own].seed)]
    /\ UNCHANGED <<gens, nproc, pyhash, urandom, today, objs, tape, ug, eg, ab_log, runs>>

\* generate_user_session(user_id, 'medium_engagement', session_start,
\* 'control') on the EventGenerator, wherever the stream stands
CallSessionShared ==
    /\ Quiet
    /\ "EventGenerator" \in objs
    /\ Len(runs) < MaxRuns
    /\ sess' = EnterSess("api", <<0, 1>>, "medium_engagement", 0, "control")
    /\ UNCHANGED <<gens, nproc, pyhash, urandom, today, objs, rng, tape, ug, eg, ab_log, runs>>

InitShared == InitProcess /\ urandom.ent = 1 /\ today = 10

NextShared ==
    \/ \E seed \in Seeds :
         Quiet /\ Len(gens) < MaxGens /\ Len(runs) < MaxRuns /\ NewEventGenerator(seed)
    \/ \E seed \in Seeds :
         Quiet /\ Len(gens) < MaxGens /\ Len(runs) < MaxRuns /\ NewUserGenerator(seed)
    \/ CallUsersShared
    \/ UsersLoop(SharedSamples)
    \/ UsersFinish
    \/ CallSessionShared
    \/ SessPageView(SharedSamples)
    \/ SessSearch(SharedSamples)
    \/ SessItemView(SharedSamples)
    \/ SessChatClick(SharedSamples)
    \/ SessChatSend(SharedSamples)
    \/ SessReturn
    \/ CollectSession

SpecShared == InitShared /\ [][NextShared]_vars

(***************************************************************************)
(* Specification of the pipeline of scripts/generate_data.py: users are    *)
(* generated and segmented by a UserGenerator(seed=42), then an            *)
(* EventGenerator(seed=42) generates the events of the segmented table     *)
(***************************************************************************)
\* num_users
PipelineCounts == 0..MaxUsers

\* a verification draw either side of 0.7, and an age draw for every group
PipelineUserSamples ==
    [int |-> {0}, coin |-> {0, Top}, age |-> {0, 200, 600, 800, 950},
     device |-> {0}, fake |-> {0}]

PipelineEventSamples ==
    [count |-> {0}, day |-> {0}, hour |-> {Top}, int |-> {0}, index |-> {0},
     coin |-> {0}]

PipelineHashSamples == {20}

\* users_df = user_gen.generate_users(num_users=num_users)
PipeUsers ==
    /\ Quiet
    /\ "UserGenerator" \in objs
    /\ runs = <<>>
    /\ \E n \in PipelineCounts : ug' = EnterUsers(n, NoDate, NoDate)
    /\ UNCHANGED <<gens, nproc, pyhash, urandom, today, objs, rng, tape, sess, eg, ab_log, runs>>

\* users_df = user_gen.generate_user_segments(users_df)
PipeSegments ==
    /\ Quiet
    /\ Len(runs) = 1
    /\ runs[1].outcome = "returned"
    /\ ug' = EnterSegments(runs[1].table)
    /\ UNCHANGED <<gens, nproc, pyhash, urandom, today, objs, rng, tape, sess, eg, ab_log, runs>>

\* events_df = event_gen.generate_events_for_users(users_df,
\*     events_per_user_range=(2, 10), days_range=30)
PipeEvents ==
    /\ Quiet
    /\ "EventGenerator" \in objs
    /\ Len(runs) = 2
    /\ eg' = EnterEvents(runs[2].table, <<2, 10>>, 30)
    /\ UNCHANGED <<gens, nproc, pyhash, urandom, today, objs, rng, tape, sess, ug, ab_log, runs>>

InitPipeline == InitProcess /\ urandom.ent = 1 /\ today = 10

NextPipeline ==
    \/ objs = {} /\ NewUserGenerator(DefaultSeed)
    \/ PipeUsers
    \/ UsersLoop(PipelineUserSamples)
    \/ UsersFinish
    \/ PipeSegments
    \/ SegmentsLoop
    \/ SegmentsFinish
    \/ Quiet /\ Len(runs) = 2 /\ "EventGenerator" \notin objs /\ NewEventGenerator(DefaultSeed)
    \/ PipeEvents
    \/ EvUser(PipelineEventSamples, PipelineHashSamples)
    \/ EvSession(PipelineEventSamples)
    \/ EvEndSessions
    \/ SessPageView(PipelineEventSamples)
    \/ SessSearch(PipelineEventSamples)
    \/ SessItemView(PipelineEventSamples)
    \/ SessChatClick(PipelineEventSamples)
    \/ SessChatSend(PipelineEventSamples)
    \/ SessReturn
    \/ EvFinish

SpecPipeline == InitPipeline /\ [][NextPipeline]_vars

(***************************************************************************)
(* Properties                                                              *)
(***************************************************************************)
Returned == sess.pc \in {"return", "done"}

Types(events) == [i \in 1..Len(events) |-> events[i].event_type]

\* C1: the event types of a returned session are a non-empty prefix of
\* EVENT_TYPES: page_view first, and no stage without its predecessor.
C1_FunnelPrefix ==
    Returned =>
        /\ Len(sess.events) \in 1..Len(EVENT_TYPES)
        /\ Types(sess.events) = SubSeq(EVENT_TYPES, 1, Len(sess.events))

C1_Witness ==
    /\ sess.pc = "done"
    /\ Types(sess.events) = EVENT_TYPES

\* C2: the first event of a returned session carries the session start
\* instant, and every later event is strictly later than the one before it.
C2_StrictlyIncreasing ==
    Returned =>
        /\ sess.events[1].event_timestamp = sess.session_start
        /\ \A i \in 2..Len(sess.events) :
              sess.events[i - 1].event_timestamp < sess.events[i].event_timestamp

\* a full funnel whose four clock advances are the smallest ones: 5, 3, 10, 2
C2_Witness ==
    /\ sess.pc = "done"
    /\ Len(sess.events) = 5
    /\ sess.events[5].event_timestamp = sess.session_start + 20

ItemEvents(events) ==
    {i \in 1..Len(events) :
        events[i].event_type \in {"item_view", "chat_click", "chat_send"}}

\* C3: in a returned session chat_click and chat_send carry the item
\* identifier of the session's item_view, which is the one drawn when
\* item_view fired.
C3_ItemIdReused ==
    Returned =>
        \A i \in ItemEvents(sess.events) :
            /\ sess.events[i].item_id = sess.item_id
            /\ sess.item_id # None
            /\ \A j \in ItemEvents(sess.events) :
                  sess.events[j].item_id = sess.events[i].item_id

C3_Witness ==
    /\ sess.pc = "done"
    /\ Cardinality(ItemEvents(sess.events)) = 3
    /\ sess.events[5].item_id = sess.events[3].item_id

Has(e, f) == f \in DOMAIN e

\* C4: search_query is present exactly on search events, item_id exactly on
\* item_view, chat_click and chat_send events, message_length exactly on
\* chat_send events, where it is an integer in [10, 200).
C4_OptionalFields ==
    Returned =>
        \A i \in 1..Len(sess.events) :
            LET e == sess.events[i]
            IN  /\ Has(e, "search_query") <=> e.event_type = "search"
                /\ Has(e, "item_id") <=>
                      e.event_type \in {"item_view", "chat_click", "chat_send"}
                /\ Has(e, "message_length") <=> e.event_type = "chat_send"
                /\ Has(e, "message_length") =>
                      /\ e.message_length \in Int
                      /\ 10 <= e.message_length /\ e.message_length < 200
                /\ e.event_type = "page_view" =>
                      DOMAIN e = {"event_id", "user_id", "session_id",
                                  "event_type", "event_timestamp", "ab_group"}

\* a chat_send with the longest message, 199, after a search and a chat_click
C4_Witness ==
    /\ sess.pc = "done"
    /\ \E i \in 1..Len(sess.events) :
          /\ sess.events[i].event_type = "chat_send"
          /\ sess.events[i].message_length = 199
    /\ \E i \in 1..Len(sess.events) : Has(sess.events[i], "search_query")

\* The value in [0, 100) congruent to h modulo 100
Reduced(h) == CHOOSE r \in 0..99 : \E q \in -3..3 : h = 100 * q + r

GroupOfReduced(r) ==
    IF r \in 0..19 THEN "control" ELSE IF r \in 20..39 THEN "treatment" ELSE "none"

C6_SameGroupEveryRun ==
    \A i, j \in 1..Len(ab_log) :
        ab_log[i].user_id = ab_log[j].user_id => ab_log[i].group = ab_log[j].group

\* The finished calls of a function
RunsOf(fn) == {i \in 1..Len(runs) : runs[i].fn = fn}

EventTables ==
    {runs[i].table : i \in {j \in RunsOf("generate_events_for_users") :
                                  runs[j].outcome = "returned"}}

Rows(table) == {table[i] : i \in 1..Len(table)}

\* C7: in a returned event table all events of one user carry one A/B group,
\* the group assign_ab_group gives the user's identifier.
C7_GroupPerUser ==
    \A table \in EventTables :
        \A e \in Rows(table) :
            /\ \A f \in Rows(table) : f.user_id = e.user_id => f.ab_group = e.ab_group
            /\ e.user_id \in DOMAIN pyhash
            /\ e.ab_group = assign_ab_group(pyhash[e.user_id])

\* a table with two sessions of one user in the treatment group and an event
\* of another user in another group
C7_Witness ==
    \E table \in EventTables :
        \E e, f, g \in Rows(table) :
            /\ e.user_id = f.user_id /\ e.session_id # f.session_id
            /\ e.ab_group = "treatment"
            /\ g.user_id # e.user_id /\ g.ab_group # e.ab_group

ValidRange(args) == args[2] = NoDate \/ args[3] >= args[2]

\* C8: generate_users(N) returns a table of exactly N records for every
\* N >= 0, and an empty table, without raising, for a zero or negative N.
C8_ExactCount ==
    \A i \in RunsOf("generate_users") :
        ValidRange(runs[i].args) =>
            /\ runs[i].outcome = "returned"
            /\ runs[i].args[1] >= 0 => Len(runs[i].table) = runs[i].args[1]
            /\ runs[i].args[1] <= 0 => runs[i].table = <<>>

\* C9: two generate_users calls with the same seed and the same arguments,
\* each on a freshly constructed UserGenerator, return identical tables.
C9_SameSeedSameUsers ==
    \A i, j \in RunsOf("generate_users") :
        (runs[i].seed = runs[j].seed /\ runs[i].args = runs[j].args) =>
            /\ runs[i].outcome = runs[j].outcome
            /\ runs[i].table = runs[j].table

\* C10: two generate_events_for_users calls with the same seed, user table
\* and parameters, each on a freshly constructed EventGenerator, return
\* identical event tables.
C10_SameSeedSameEvents ==
    \A i, j \in RunsOf("generate_events_for_users") :
        (runs[i].seed = runs[j].seed /\ runs[i].args = runs[j].args) =>
            /\ runs[i].outcome = runs[j].outcome
            /\ runs[i].table = runs[j].table

UserTables ==
    {runs[i].table : i \in {j \in RunsOf("generate_users") :
                                  runs[j].outcome = "returned"}}

\* C11: a table returned by generate_users is sorted non-decreasing by join
\* date: no row has a later join date than the row behind it.
C11_SortedByJoinDate ==
    \A table \in UserTables :
        \A i \in 1..(Len(table) - 1) : table[i].join_date <= table[i + 1].join_date

\* the sort moved a record: the first row was generated after the second
C11_Witness ==
    \E table \in UserTables :
        /\ Len(table) >= 2
        /\ table[1].join_date < table[2].join_date
        /\ table[1].user_id[2] > table[2].user_id[2]

\* The range a call of generate_users draws from, from its arguments
RangeStart(args) == IF args[2] = NoDate THEN now - DefaultDays * DAY ELSE args[2]

RangeEnd(args) == IF args[3] = NoDate THEN now ELSE args[3]

\* C12: every record's creation instant is the range's start plus a whole
\* number k of days with 0 <= k <= (end - start) in whole days, so that it
\* lies in [start, end], and its join date is the calendar date of that
\* instant.
C12_JoinDateInRange ==
    \A i \in RunsOf("generate_users") :
        runs[i].outcome = "returned" =>
            \A row \in Rows(runs[i].table) :
                LET start == RangeStart(runs[i].args)
                    end == RangeEnd(runs[i].args)
                IN  /\ \E k \in 0..((end - start) \div DAY) :
                          row.created_at = start + k * DAY
                    /\ start <= row.created_at /\ row.created_at <= end
                    /\ row.join_date * DAY <= row.created_at
                    /\ row.created_at < (row.join_date + 1) * DAY

\* both ends of a range of two whole days that starts and ends off midnight
C12_Witness ==
    \E i \in RunsOf("generate_users") :
        /\ runs[i].outcome = "returned"
        /\ runs[i].args[2] = 5 * DAY + 3600 /\ runs[i].args[3] = 7 * DAY + 7200
        /\ \E r1, r2 \in Rows(runs[i].table) :
              /\ r1.created_at = 5 * DAY + 3600 /\ r1.join_date = 5
              /\ r2.created_at = 7 * DAY + 3600 /\ r2.join_date = 7

SegmentRuns ==
    {i \in RunsOf("generate_user_segments") : runs[i].outcome = "returned"}

\* C13: generate_user_segments returns as many rows as it was given, in the
\* same order, each with the columns it had plus user_segment, and with
\* every column other than user_segment unchanged.
C13_OnlySegmentChanges ==
    \A i \in SegmentRuns :
        LET df == runs[i].args[1]
            out == runs[i].table
        IN  /\ Len(out) = Len(df)
            /\ \A j \in 1..Len(df) :
                  /\ DOMAIN out[j] = DOMAIN df[j] \cup {"user_segment"}
                  /\ \A f \in DOMAIN df[j] \ {"user_segment"} : out[j][f] = df[j][f]

\* a table of two records that has no segment column gets two different
\* segments, and a table that has the column is given to the function again
C13_Witness ==
    \E i, k \in SegmentRuns :
        /\ Len(runs[i].table) = 2
        /\ "user_segment" \notin DOMAIN runs[i].args[1][1]
        /\ runs[i].table[1].user_segment # runs[i].table[2].user_segment
        /\ runs[k].args[1] # <<>>
        /\ "user_segment" \in DOMAIN runs[k].args[1][1]

\* The reference rule, in 1/1000: the score of every combination
RefScore(verified_neighborhood, age_group) ==
    LET base == IF verified_neighborhood THEN 500 ELSE 300
    IN  CASE age_group = "18-24" -> (base * 12) \div 10
          [] age_group = "25-34" -> (base * 13) \div 10
          [] age_group = "35-44" -> base
          [] age_group = "45-54" -> (base * 8) \div 10
          [] age_group = "55+" -> (base * 6) \div 10

RefSegment(score) ==
    CASE score > 700 -> "high_engagement"
      [] score <= 700 /\ score > 400 -> "medium_engagement"
      [] score <= 400 -> "low_engagement"

\* C14: every row of the five age groups is given the segment of the
\* reference rule for its verification flag and age group; the score 0.4 of
\* a verified 45-54 user is low_engagement.
C14_SegmentRule ==
    \A i \in SegmentRuns :
        \A row \in Rows(runs[i].table) :
            /\ row.age_group \in Rows(AGE_GROUPS) =>
                  row.user_segment =
                      RefSegment(RefScore(row.verified_neighborhood, row.age_group))
            /\ (row.verified_neighborhood /\ row.age_group = "45-54") =>
                  row.user_segment = "low_engagement"

\* a verified 45-54 user (score 0.4, low) beside a verified 25-34 user
\* (score 0.65, medium)
C14_Witness ==
    \E i \in SegmentRuns :
        \E r1, r2 \in Rows(runs[i].table) :
            /\ r1.verified_neighborhood /\ r1.age_group = "45-54"
            /\ r1.user_segment = "low_engagement"
            /\ r2.verified_neighborhood /\ r2.age_group = "25-34"
            /\ r2.user_segment = "medium_engagement"

\* C15: a returned event table is sorted ascending by event timestamp: no
\* row is later than the row behind it.
C15_SortedByTimestamp ==
    \A table \in EventTables :
        \A i \in 1..(Len(table) - 1) :
            table[i].event_timestamp <= table[i + 1].event_timestamp

\* the sort moved an event of one user in front of an event of another user
\* that was generated before it
C15_Witness ==
    \E table \in EventTables :
        \E i, j \in 1..Len(table) :
            /\ i < j
            /\ table[i].user_id # table[j].user_id
            /\ table[i].event_id[2] > table[j].event_id[2]
            /\ table[i].event_timestamp < table[j].event_timestamp

EventRuns == RunsOf("generate_events_for_users")

\* C16: a returned event table has no event of a user whose join date is
\* today or later, whatever number of sessions was drawn for the user.
C16_NoSessionForNewUser ==
    \A i \in EventRuns :
        runs[i].outcome = "returned" =>
            \A user \in Rows(runs[i].args[1]) :
                user.join_date >= today =>
                    \A e \in Rows(runs[i].table) : e.user_id # user.user_id

\* a user who joined today beside a user who joined before and has events,
\* with thirty days to draw from
C16_Witness ==
    \E i \in EventRuns :
        /\ runs[i].outcome = "returned"
        /\ runs[i].args[3] = 30
        /\ \E user \in Rows(runs[i].args[1]) : user.join_date = today
        /\ runs[i].table # <<>>

\* C17: with a valid session count range, an empty user table, a days range
\* of zero, or a table of users who all joined today or later, returns the
\* empty event table and raises nothing.
C17_DegenerateInputs ==
    \A i \in EventRuns :
        LET users_df == runs[i].args[1]
            range == runs[i].args[2]
            days_range == runs[i].args[3]
        IN  (/\ range[1] < range[2]
             /\ \/ users_df = <<>>
                \/ days_range = 0
                \/ \A user \in Rows(users_df) : user.join_date >= today) =>
                /\ runs[i].outcome = "returned"
                /\ runs[i].table = <<>>

\* a days range of zero for two users, one of whom joined days ago
C17_Witness ==
    \E i \in EventRuns :
        /\ runs[i].outcome = "returned" /\ runs[i].table = <<>>
        /\ runs[i].args[3] = 0
        /\ Len(runs[i].args[1]) = 2
        /\ \E user \in Rows(runs[i].args[1]) : user.join_date < today

SessionRuns == RunsOf("generate_user_session")

Occurs(event_type, events) ==
    \E k \in 1..Len(events) : events[k].event_type = event_type

\* C18: two sessions of the same seed, user, segment and start that are
\* given the same draws agree, whatever their A/B groups, on whether search
\* occurs and on whether item_view occurs, and, when chat_click occurs in
\* both, on whether chat_send occurs.
C18_GroupOnlyAtChatClick ==
    \A i, j \in SessionRuns :
        (/\ runs[i].seed = runs[j].seed
         /\ \A a \in 1..3 : runs[i].args[a] = runs[j].args[a]) =>
            LET ei == runs[i].table
                ej == runs[j].table
            IN  /\ Occurs("search", ei) <=> Occurs("search", ej)
                /\ Occurs("item_view", ei) <=> Occurs("item_view", ej)
                /\ (Occurs("chat_click", ei) /\ Occurs("chat_click", ej)) =>
                      (Occurs("chat_send", ei) <=> Occurs("chat_send", ej))

\* the same draws give the treatment session a chat_click and the control
\* session none, after an item_view in both
C18_Witness ==
    \E i, j \in SessionRuns :
        /\ runs[i].seed = runs[j].seed
        /\ \A a \in 1..3 : runs[i].args[a] = runs[j].args[a]
        /\ runs[i].args[4] = "treatment" /\ runs[j].args[4] = "control"
        /\ Occurs("item_view", runs[i].table) /\ Occurs("item_view", runs[j].table)
        /\ Occurs("chat_click", runs[i].table)
        /\ ~Occurs("chat_click", runs[j].table)

\* C19: every rate a stage of generate_user_session compares a draw against
\* lies within [0, 1].
C19_RatesWithinUnit ==
    /\ sess.pc = "search" =>
          FUNNEL_RATES.page_view_to_search * multiplier \in 0..1000
    /\ sess.pc = "item_view" =>
          FUNNEL_RATES.search_to_item_view * multiplier \in 0..1000
    /\ sess.pc = "chat_click" => chat_click_rate \in 0..10000
    /\ sess.pc = "chat_send" =>
          FUNNEL_RATES.chat_click_to_chat_send * multiplier \in 0..1000

\* The chat_click rate of a segment and a group, in 1/10000:
\* 0.25 x {1.3, 1.0, 0.7} x {1.4, 1.0}
RefChatClickRate(user_segment, ab_group) ==
    CASE user_segment = "high_engagement" ->
            IF ab_group = "treatment" THEN 4550 ELSE 3250
      [] user_segment = "low_engagement" ->
            IF ab_group = "treatment" THEN 2450 ELSE 1750
      [] OTHER -> IF ab_group = "treatment" THEN 3500 ELSE 2500

\* The draw the chat_click stage compares, the seventh of a session that
\* reaches the stage on a generator just constructed
ChatClickDraw == tape["np"][rng["np"].seed][7]

\* C20 as stated: a high_engagement session of the treatment group that has
\* an item_view has a chat_click, whatever was drawn.
C20_AlwaysChatClick ==
    (/\ Returned
     /\ sess.user_segment = "high_engagement" /\ sess.ab_group = "treatment"
     /\ Occurs("item_view", sess.events)) =>
        Occurs("chat_click", sess.events)

\* C20: the chat_click rate is at most 0.455, the rate of a high_engagement
\* user of the treatment group, and so below 1; a session that has an
\* item_view has a chat_click exactly when the draw is below the rate of
\* its segment and group.
C20_ChatClickBelowOne ==
    /\ sess.pc = "chat_click" => chat_click_rate <= 4550
    /\ (Returned /\ Occurs("item_view", sess.events)) =>
          (Occurs("chat_click", sess.events) <=>
              ChatClickDraw * 10000 <
                  RefChatClickRate(sess.user_segment, sess.ab_group) * RawMax)

\* a high_engagement session of the treatment group with an item_view and,
\* the draw being not below 0.455, no chat_click
C20_Witness ==
    /\ sess.pc = "done"
    /\ sess.user_segment = "high_engagement" /\ sess.ab_group = "treatment"
    /\ Occurs("item_view", sess.events)
    /\ ~Occurs("chat_click", sess.events)
    /\ ChatClickDraw * 1000 >= 455 * RawMax

\* The events of a user, and the sessions they belong to, in an event table
EventsOf(user_id, table) == {e \in Rows(table) : e.user_id = user_id}

SessionsOf(user_id, table) == {e.session_id : e \in EventsOf(user_id, table)}

C22_SessionDateWindow ==
    \A i \in EventRuns :
        runs[i].outcome = "returned" =>
            \A user \in Rows(runs[i].args[1]) :
                \A e \in EventsOf(user.user_id, runs[i].table) :
                    e.event_type = "page_view" =>
                        LET d == e.event_timestamp \div DAY
                            days_range == runs[i].args[3]
                            since == today - user.join_date
                        IN  /\ user.join_date <= d
                            /\ d <= user.join_date +
                                     (IF days_range <= since THEN days_range ELSE since)
                            /\ d <= today
                            /\ d <= user.join_date + days_range

\* a days range of 1 for a user who joined two or three days ago: a session
\* on the day after the join date, which is before today
C22_Witness ==
    \E i \in EventRuns :
        /\ runs[i].outcome = "returned" /\ runs[i].args[3] = 1
        /\ \E user \in Rows(runs[i].args[1]) :
              \E e \in EventsOf(user.user_id, runs[i].table) :
                  /\ e.event_type = "page_view"
                  /\ e.event_timestamp \div DAY = user.join_date + 1
                  /\ user.join_date + 1 < today

\* The place of an event type in the funnel
Rank(event_type) == CHOOSE k \in 1..Len(EVENT_TYPES) : EVENT_TYPES[k] = event_type

\* C28: in a returned event table, of two events of one session the one of
\* the earlier funnel stage stands before the other, and its timestamp is
\* strictly smaller, so that no order of equal timestamps can exchange them.
C28_FunnelOrderKept ==
    \A table \in EventTables :
        \A i, j \in 1..Len(table) :
            (/\ table[i].session_id = table[j].session_id
             /\ Rank(table[i].event_type) < Rank(table[j].event_type)) =>
                /\ i < j
                /\ table[i].event_timestamp < table[j].event_timestamp

\* an event of another session, of a timestamp equal to that of the event
\* before it, stands between two events of one session
C28_Witness ==
    \E table \in EventTables :
        \E i, j, k \in 1..Len(table) :
            /\ i < j /\ j < k
            /\ table[i].session_id = table[k].session_id
            /\ table[j].session_id # table[i].session_id
            /\ table[i].event_timestamp = table[j].event_timestamp

\* C30: with a range whose min is not below its max, a call on a non-empty
\* user table ends in ValueError and returns no table; on the empty user
\* table it returns the empty event table.
C30_EmptyCountRange ==
    \A i \in EventRuns :
        runs[i].args[2][1] >= runs[i].args[2][2] =>
            /\ runs[i].table = <<>>
            /\ runs[i].outcome =
                  IF runs[i].args[1] = <<>> THEN "returned" ELSE "ValueError"

\* the range (2, 2) on a table of two users
C30_Witness ==
    \E i \in EventRuns :
        /\ runs[i].args[2] = <<2, 2>> /\ Len(runs[i].args[1]) = 2
        /\ runs[i].outcome = "ValueError"

\* C25: a generate_users call whose end date is before its start date ends
\* in an error and returns no table, for every count, zero included.
C25_ReversedRangeRejected ==
    \A i \in RunsOf("generate_users") :
        RangeEnd(runs[i].args) < RangeStart(runs[i].args) =>
            /\ runs[i].outcome \in {"ValueError", "KeyError"}
            /\ runs[i].table = <<>>

\* the count 0 with an end date one hour before the start date
C25_Witness ==
    \E i \in RunsOf("generate_users") :
        /\ runs[i].args[1] = 0
        /\ runs[i].args[2] # NoDate /\ runs[i].args[3] < runs[i].args[2]
        /\ runs[i].outcome # "returned"

IsPrefix(a, b) == Len(a) <= Len(b) /\ a = SubSeq(b, 1, Len(a))

\* C29: of two sessions of the same seed, user, segment and start that are
\* given the same draws, the event types of one of a group other than
\* treatment are a prefix of the event types of any other, and are the same
\* as those of one of the other group that is not treatment.
C29_TreatmentExtends ==
    \A i, j \in SessionRuns :
        (/\ runs[i].seed = runs[j].seed
         /\ \A a \in 1..3 : runs[i].args[a] = runs[j].args[a]
         /\ runs[i].args[4] # "treatment") =>
            /\ IsPrefix(Types(runs[i].table), Types(runs[j].table))
            /\ runs[j].args[4] # "treatment" =>
                  Types(runs[i].table) = Types(runs[j].table)

\* the session of the group none ends after item_view, the session of the
\* treatment group runs to chat_send
C29_Witness ==
    \E i, j \in SessionRuns :
        /\ runs[i].seed = runs[j].seed
        /\ \A a \in 1..3 : runs[i].args[a] = runs[j].args[a]
        /\ runs[i].args[4] = "none" /\ runs[j].args[4] = "treatment"
        /\ Len(runs[i].table) = 3 /\ Len(runs[j].table) = 5

\* C24: on one EventGenerator the stream keeps the seed of the construction,
\* a call starts at the position the call before it ended at, and within a
\* call the position never falls back: it is at least the position at the
\* call plus one draw for every user reached.
C24_StreamContinues ==
    /\ "EventGenerator" \in objs => rng["np"].seed = DefaultSeed
    /\ \A i \in 1..Len(runs) :
          /\ runs[i].seed = DefaultSeed
          /\ runs[i].draws[1] <= runs[i].draws[2]
          /\ runs[i].draws[1] = IF i = 1 THEN 0 ELSE runs[i - 1].draws[2]
    /\ eg.pc # "idle" =>
          /\ eg.seed = rng["np"].seed
          /\ eg.pos = IF runs = <<>> THEN 0 ELSE runs[Len(runs)].draws[2]
          /\ rng["np"].pos >= eg.pos + eg.u

\* the second call starts where the first one ended, and, reading other
\* draws than the first, returns a table of another length
C24_Witness ==
    /\ Len(runs) >= 2
    /\ runs[1].draws[2] > 0
    /\ runs[2].draws[1] = runs[1].draws[2]
    /\ runs[2].draws[2] > runs[2].draws[1]
    /\ runs[2].args = runs[1].args
    /\ Len(runs[2].table) # Len(runs[1].table)

MaxOf(S) == CHOOSE x \in S : \A y \in S : y <= x

\* The constructions made before the i-th finished call was made, the last
\* of them, and the last of an EventGenerator: the one a session is called on
Before(i) == {g \in 1..Len(gens) : gens[g].at < i}

LastGen(i) == MaxOf(Before(i))

OwnGen(i) == MaxOf({g \in Before(i) : gens[g].cls = "EventGenerator"})

\* The i-th call read the stream of its generator's seed from the start
SeesOwnStream(i) ==
    runs[i].seed = gens[OwnGen(i)].seed /\ runs[i].draws[1] = 0

\* A generator was constructed, or a call drew, between the construction of
\* the i-th call's generator and the call
Intervened(i) ==
    \/ LastGen(i) # OwnGen(i)
    \/ \E k \in (gens[OwnGen(i)].at + 1)..(i - 1) : runs[k].draws[2] > runs[k].draws[1]

\* C26 as stated: a session call that a construction or a draw intervened
\* before does not read the draws it reads when run alone.
C26_InterventionChangesDraws ==
    \A i \in SessionRuns : Intervened(i) => ~SeesOwnStream(i)

\* C26: a session call reads the one shared stream where it stands: the
\* stream of the seed of the generator constructed last, of either class,
\* after the draws of the calls finished since that construction.  Whether
\* search occurs is decided by the second draw from there.  The call reads
\* its own seed's stream from the start exactly when the generator
\* constructed last has that seed and no call drew since.
C26_DrawsOfSharedStream ==
    \A i \in SessionRuns :
        LET last == gens[LastGen(i)]
            since == IF last.at = i - 1 THEN 0 ELSE runs[i - 1].draws[2]
        IN  /\ runs[i].seed = last.seed
            /\ runs[i].draws[1] = since
            /\ Occurs("search", runs[i].table) <=>
                  random_lt(tape["np"][runs[i].seed][since + 2],
                            FUNNEL_RATES.page_view_to_search * 10, 1000)
            /\ SeesOwnStream(i) <=>
                  (last.seed = gens[OwnGen(i)].seed /\ since = 0)

\* a UserGenerator of another seed constructed after the EventGenerator: the
\* session reads the other seed's stream
C26_Witness ==
    \E i \in SessionRuns :
        /\ gens[LastGen(i)].cls = "UserGenerator"
        /\ gens[LastGen(i)].seed # gens[OwnGen(i)].seed
        /\ runs[i].seed = gens[LastGen(i)].seed
        /\ ~SeesOwnStream(i)

\* C23 as stated: what the caller's table object holds when a call returns
\* is what it held when it was passed.
C23_InputsUnchanged ==
    \A i \in 1..Len(runs) :
        "input" \in DOMAIN runs[i] => runs[i].input = runs[i].args[1]

\* C27: no row is given high_engagement by generate_user_segments, the
\* score of every row being at most 0.65, and no session of the pipeline is
\* generated for a high_engagement user: the multiplier 1.3 is never applied.
C27_NeverHighEngagement ==
    /\ \A i \in SegmentRuns :
          \A j \in 1..Len(runs[i].table) :
              LET row == runs[i].table[j]
              IN  /\ RefScore(row.verified_neighborhood, row.age_group) <= 650
                  /\ row.user_segment \in {"medium_engagement", "low_engagement"}
    /\ sess.pc # "idle" =>
          sess.user_segment \in {"medium_engagement", "low_engagement"} /\ multiplier # 13
    /\ \A i \in EventRuns : \A j \in 1..Len(runs[i].args[1]) :
          runs[i].args[1][j].user_segment # "high_engagement"

\* the events of a verified user of 25 to 34, the highest score, returned
C27_Witness ==
    \E i \in EventRuns :
        /\ runs[i].outcome = "returned"
        /\ \E j \in 1..Len(runs[i].args[1]) :
              LET user == runs[i].args[1][j]
              IN  /\ user.verified_neighborhood
                  /\ user.age_group = "25-34"
                  /\ user.user_segment = "medium_engagement"
                  /\ Occurs("chat_click", SelectSeq(runs[i].table,
                                LAMBDA e : e.user_id = user.user_id))

====
